---- MODULE Spec2Model ----
(***************************************************************************)
(* threebot: the "bind" and "search" command handlers                      *)
(* (src/threebot/commands/bind.py, src/threebot/commands/search.py).       *)
(*                                                                         *)
(* A text value (a username aside) is a sequence of one-character strings, *)
(* so that prefix tests, byte ordering, int() parsing and number           *)
(* formatting are computed character by character.                         *)
(***************************************************************************)
EXTENDS Integers, Sequences, FiniteSets, TLC

VARIABLES
    binds,      \* table binds(username, bind) as the connection sees it, in rowid order
    committed,  \* table binds as of the last conn.commit()
    aliases,    \* table aliases(commandname, action, author, created): a set of rows
    pc,         \* pc[p]: position of invocation p inside execute()
    cmd,        \* cmd[p]: the command invocation p runs ("bind" or "search")
    author,     \* author[p]: data.author
    argv,       \* argv[p]: the parsed argument list
    results,    \* results[p]: the local `results` of bind.execute (None or a row)
    calls,      \* calls[p]: the collaborator calls made so far, in order
    err,        \* err[p]: the message of the raised exception, NoErr if none
    history,    \* history[u]: the tokens of u's last two completed rebinds
    entry       \* entry[p]: the binds table (seen, committed) when invocation p began

vars == <<binds, committed, aliases, pc, cmd, author, argv, results, calls, err, history,
          entry>>

---------------------------------------------------------------------------
(* Bounds of the model *)

NumProcs == 2       \* invocations that may be in flight at once (SpecConc)
MaxAliases == 3     \* rows of the aliases table
MaxRows == 3        \* rows of the binds table under concurrent dispatch

Procs == 1..NumProcs
Users == {"u1", "u2"}

---------------------------------------------------------------------------
(* Text *)

\* The characters used, in ascending byte order (SQLite's BINARY collation).
Alphabet ==
    <<"+", "-", "0", "1", "2", "3", "4", "5", "6", "7", "8", "9",
      "H", "a", "d", "e", "h", "l", "o", "p", "r", "s", "w", "x", "z">>

Code(ch) == CHOOSE i \in DOMAIN Alphabet : Alphabet[i] = ch

Min(a, b) == IF a <= b THEN a ELSE b

\* s <= t under ORDER BY commandname (memcmp, the shorter of two equal prefixes first)
StrLeq(s, t) ==
    \/ /\ Len(s) <= Len(t)
       /\ \A i \in 1..Len(s) : s[i] = t[i]
    \/ \E i \in 1..Min(Len(s), Len(t)) :
          /\ \A j \in 1..(i - 1) : s[j] = t[j]
          /\ Code(s[i]) < Code(t[i])

\* A fault of the filter: a substring test in place of the prefix test
Contains(s, prefix) ==
    \E k \in 0..(Len(s) - Len(prefix)) : SubSeq(s, k + 1, k + Len(prefix)) = prefix

\* str.startswith
startswith(s, prefix) ==
    /\ Len(prefix) <= Len(s)
    /\ SubSeq(s, 1, Len(prefix)) = prefix

Digits == {"0", "1", "2", "3", "4", "5", "6", "7", "8", "9"}

DigitVal(ch) == Code(ch) - Code("0")

RECURSIVE DigitsVal(_)
DigitsVal(s) ==
    IF s = <<>> THEN 0
    ELSE 10 * DigitsVal(SubSeq(s, 1, Len(s) - 1)) + DigitVal(s[Len(s)])

Unsigned(s) == IF s # <<>> /\ s[1] \in {"+", "-"} THEN Tail(s) ELSE s

\* int(s) accepts an optional sign followed by at least one digit
IsIntLiteral(s) ==
    /\ Unsigned(s) # <<>>
    /\ \A i \in 1..Len(Unsigned(s)) : Unsigned(s)[i] \in Digits

\* int(s)
int(s) ==
    IF s[1] = "-" THEN 0 - DigitsVal(Unsigned(s)) ELSE DigitsVal(Unsigned(s))

\* '{}'.format(n) for an integer n >= 0
RECURSIVE format(_)
format(n) ==
    IF n < 10 THEN <<Alphabet[Code("0") + n]>>
    ELSE format(n \div 10) \o <<Alphabet[Code("0") + (n % 10)]>>

---------------------------------------------------------------------------
(* The values the invocations are run on *)

a == <<"a">>
hel == <<"h", "e", "l">>
hello == <<"h", "e", "l", "l", "o">>
help == <<"h", "e", "l", "p">>
shell == <<"s", "h", "e", "l", "l">>
Help == <<"H", "e", "l", "p">>
world == <<"w", "o", "r", "l", "d">>
z == <<"z">>

\* The rows an aliases table is drawn from: (commandname, action, author, created)
AliasRows ==
    { <<hello, a, "u1", 1>>, <<help, a, "u1", 2>>, <<help, z, "u2", 3>>,
      <<world, a, "u2", 4>>, <<shell, a, "u2", 5>>, <<Help, a, "u1", 6>> }

Catalogs == { c \in SUBSET AliasRows : Cardinality(c) <= MaxAliases }

\* The raw sound codes known to the sound subsystem
Sounds == { a }

BindTokens == { a, help, z }

BindArgv ==
    {<<>>} \cup { <<t>> : t \in BindTokens }
           \cup { <<a, help>>, <<help, z>>, <<z, a>>, <<z, z>>, <<a, a, a>> }

Keywords == { hel, <<"h">>, <<"H", "e">>, z }

PageArgs == { <<"0">>, <<"1">>, <<"2">>, <<"3">>, <<"-", "1">>, <<"0", "2">>, <<"x">> }

SearchArgv ==
    {<<>>} \cup { <<k>> : k \in Keywords }
           \cup { <<k, n>> : k \in Keywords, n \in PageArgs }
           \cup { <<hel, <<"1">>, <<"x">> >> }

---------------------------------------------------------------------------
(* Collaborators *)

None == <<>>
NoErr == <<>>

\* util.resolve_sound_or_alias raises unless the token is a sound code or an alias
Resolvable(token) ==
    \/ token \in Sounds
    \/ \E r \in aliases : r[1] = token

PageSize == 2

\* util.into_pages: fixed-size pages, each rendered with the column header
into_pages(columns, rows) ==
    [ k \in 1..((Len(rows) + PageSize - 1) \div PageSize) |->
        <<"page", columns, SubSeq(rows, (k - 1) * PageSize + 1, Min(k * PageSize, Len(rows)))>> ]

Columns == <<"Alias", "Action", "Author", "Created">>

---------------------------------------------------------------------------
(* The store *)

\* cursor.fetchone() after SELECT ... FROM binds WHERE username=?: the first
\* matching row in rowid order, None if there is none
FirstRow(tbl, username) ==
    IF \E i \in 1..Len(tbl) : tbl[i][1] = username
    THEN tbl[CHOOSE i \in 1..Len(tbl) :
                /\ tbl[i][1] = username
                /\ \A j \in 1..(i - 1) : tbl[j][1] # username]
    ELSE None

\* SELECT bind FROM binds WHERE username=?
SelectBind(tbl, username) ==
    IF FirstRow(tbl, username) = None THEN None ELSE <<FirstRow(tbl, username)[2]>>

\* INSERT INTO binds VALUES (?, ?)
Insert(tbl, username, bind) == Append(tbl, <<username, bind>>)

\* Faults of the UPDATE: one that writes nothing, one without its WHERE clause
UpdateNothing(tbl, username, bind) == tbl

UpdateEveryRow(tbl, username, bind) ==
    [ i \in 1..Len(tbl) |-> <<tbl[i][1], bind>> ]

\* UPDATE binds SET bind=? WHERE username=?
Update(tbl, username, bind) ==
    [ i \in 1..Len(tbl) |-> IF tbl[i][1] = username THEN <<username, bind>> ELSE tbl[i] ]

\* SELECT * FROM aliases ORDER BY commandname: every order of the rows that
\* ascends by commandname (rows of equal commandname come in either order)
OrderByCommandname(tbl) ==
    { s \in [1..Cardinality(tbl) -> tbl] :
        /\ \A i, j \in 1..Cardinality(tbl) : i # j => s[i] # s[j]
        /\ \A i, j \in 1..Cardinality(tbl) : i < j => StrLeq(s[i][1], s[j][1]) }

---------------------------------------------------------------------------
(* Invocations *)

Init ==
    /\ binds = <<>>
    /\ committed = <<>>
    /\ aliases \in Catalogs
    /\ pc = [p \in Procs |-> "idle"]
    /\ cmd = [p \in Procs |-> "none"]
    /\ author = [p \in Procs |-> "u1"]
    /\ argv = [p \in Procs |-> <<>>]
    /\ results = [p \in Procs |-> None]
    /\ calls = [p \in Procs |-> <<>>]
    /\ err = [p \in Procs |-> NoErr]
    /\ history = [u \in Users |-> <<>>]
    /\ entry = [p \in Procs |-> <<>>]

Returned(p) == pc[p] \in {"done", "raised"}

Call(p, c) == calls' = [calls EXCEPT ![p] = Append(@, c)]

Raise(p, msg) ==
    /\ pc' = [pc EXCEPT ![p] = "raised"]
    /\ err' = [err EXCEPT ![p] = msg]

\* The dispatcher calls bind.execute(data, argv)
BindStart(p, u, args) ==
    /\ pc[p] = "idle"
    /\ Len(binds) < MaxRows    \* keeps the table finite once rows can be duplicated
    /\ pc' = [pc EXCEPT ![p] = "select1"]
    /\ cmd' = [cmd EXCEPT ![p] = "bind"]
    /\ author' = [author EXCEPT ![p] = u]
    /\ argv' = [argv EXCEPT ![p] = args]
    /\ entry' = [entry EXCEPT ![p] = <<binds, committed>>]
    /\ UNCHANGED <<binds, committed, aliases, results, calls, err, history>>

\* bind.py 8-11
BindSelect1(p) ==
    /\ pc[p] = "select1"
    /\ results' = [results EXCEPT ![p] = SelectBind(binds, author[p])]
    /\ Call(p, <<"select">>)
    /\ pc' = [pc EXCEPT ![p] = "args"]
    /\ UNCHANGED <<binds, committed, aliases, cmd, author, argv, err, history, entry>>

\* A fault of the replay path: the stored value is validated before it is played
BindReplayValidates(p) ==
    /\ pc[p] = "args"
    /\ Len(argv[p]) < 1
    /\ IF results[p] = None
       THEN /\ Raise(p, <<"No bind set! Usage: bind [CODE|ALIAS]">>)
            /\ UNCHANGED calls
       ELSE /\ calls' = [calls EXCEPT ![p] =
                            @ \o << <<"resolve", results[p][1]>>,
                                    <<"play", results[p][1]>>,
                                    <<"reply", <<"Playing bind: ", results[p][1]>> >> >>]
            /\ pc' = [pc EXCEPT ![p] = "done"]
            /\ UNCHANGED err
    /\ UNCHANGED <<binds, committed, aliases, cmd, author, argv, results, history, entry>>

\* bind.py 12-18
BindReplay(p) ==
    /\ pc[p] = "args"
    /\ Len(argv[p]) < 1
    /\ IF results[p] = None
       THEN /\ Raise(p, <<"No bind set! Usage: bind [CODE|ALIAS]">>)
            /\ UNCHANGED calls
       ELSE /\ calls' = [calls EXCEPT ![p] =
                            @ \o << <<"play", results[p][1]>>,
                                    <<"reply", <<"Playing bind: ", results[p][1]>> >> >>]
            /\ pc' = [pc EXCEPT ![p] = "done"]
            /\ UNCHANGED err
    /\ UNCHANGED <<binds, committed, aliases, cmd, author, argv, results, history, entry>>

\* A fault of the argument count check: the extra arguments are ignored
BindTooManyIgnored(p) ==
    /\ pc[p] = "args"
    /\ Len(argv[p]) > 1
    /\ pc' = [pc EXCEPT ![p] = "select2"]
    /\ UNCHANGED <<binds, committed, aliases, cmd, author, argv, results, calls, err,
                   history, entry>>

\* bind.py 20-21
BindTooMany(p) ==
    /\ pc[p] = "args"
    /\ ~(Len(argv[p]) < 1)
    /\ Len(argv[p]) > 1
    /\ Raise(p, <<"too many arguments. Usage: bind [CODE|ALIAS]">>)
    /\ UNCHANGED <<binds, committed, aliases, cmd, author, argv, results, calls, history, entry>>

\* A fault of the validation: an unresolvable token does not raise
BindResolveLenient(p) ==
    /\ pc[p] = "args"
    /\ Len(argv[p]) = 1
    /\ Call(p, <<"resolve", argv[p][1]>>)
    /\ pc' = [pc EXCEPT ![p] = "select2"]
    /\ UNCHANGED <<binds, committed, aliases, cmd, author, argv, results, err, history, entry>>

\* bind.py 23-24
BindResolve(p) ==
    /\ pc[p] = "args"
    /\ ~(Len(argv[p]) < 1)
    /\ ~(Len(argv[p]) > 1)
    /\ Call(p, <<"resolve", argv[p][1]>>)
    /\ IF Resolvable(argv[p][1])
       THEN /\ pc' = [pc EXCEPT ![p] = "select2"]
            /\ UNCHANGED err
       ELSE Raise(p, <<"unresolvable: ", argv[p][1]>>)
    /\ UNCHANGED <<binds, committed, aliases, cmd, author, argv, results, history, entry>>

\* bind.py 26-28
BindSelect2(p) ==
    /\ pc[p] = "select2"
    /\ results' = [results EXCEPT ![p] = FirstRow(binds, author[p])]
    /\ Call(p, <<"select">>)
    /\ pc' = [pc EXCEPT ![p] = "write"]
    /\ UNCHANGED <<binds, committed, aliases, cmd, author, argv, err, history, entry>>

\* A fault of the upsert: the insert taken whatever the existence check found
BindWriteAlwaysInsert(p) ==
    /\ pc[p] = "write"
    /\ binds' = Insert(binds, author[p], argv[p][1])
    /\ Call(p, <<"insert", author[p], argv[p][1]>>)
    /\ pc' = [pc EXCEPT ![p] = "commit"]
    /\ UNCHANGED <<committed, aliases, cmd, author, argv, results, err, history, entry>>

\* bind.py 29-32
BindWrite(p) ==
    /\ pc[p] = "write"
    /\ IF results[p] = None
       THEN /\ binds' = Insert(binds, author[p], argv[p][1])
            /\ Call(p, <<"insert", author[p], argv[p][1]>>)
       ELSE /\ binds' = Update(binds, author[p], argv[p][1])
            /\ Call(p, <<"update", author[p], argv[p][1]>>)
    /\ pc' = [pc EXCEPT ![p] = "commit"]
    /\ UNCHANGED <<committed, aliases, cmd, author, argv, results, err, history, entry>>

\* bind.py 34
BindCommit(p) ==
    /\ pc[p] = "commit"
    /\ committed' = binds
    /\ Call(p, <<"commit">>)
    /\ pc' = [pc EXCEPT ![p] = "reply"]
    /\ UNCHANGED <<binds, aliases, cmd, author, argv, results, err, history, entry>>

\* The last two of a user's completed rebinds, oldest first
Remember(h, token) == IF Len(h) < 2 THEN Append(h, token) ELSE <<h[2], token>>

\* bind.py 35
BindReply(p) ==
    /\ pc[p] = "reply"
    /\ Call(p, <<"reply", <<"Set bind to ", argv[p][1], ".">> >>)
    /\ pc' = [pc EXCEPT ![p] = "done"]
    /\ history' = [history EXCEPT ![author[p]] = Remember(@, argv[p][1])]
    /\ UNCHANGED <<binds, committed, aliases, cmd, author, argv, results, err, entry>>

BindStep(p) ==
    \/ BindSelect1(p)
    \/ BindReplay(p)
    \/ BindTooMany(p)
    \/ BindResolve(p)
    \/ BindSelect2(p)
    \/ BindWrite(p)
    \/ BindCommit(p)
    \/ BindReply(p)

---------------------------------------------------------------------------
(* search *)

\* search.py 15-16
FilterRows(rows, keyword) ==
    LET Matches(t) == startswith(t[1], keyword)
    IN  SelectSeq(rows, Matches)

\* A fault of the page selection: the argument taken as a 0-indexed page
SearchPageZeroIndexed(rows, args) ==
    LET pages == into_pages(Columns, rows)
        paged == <<"into_pages", Columns, rows>>
    IN  IF Len(args) > 1 /\ ~IsIntLiteral(args[2])
        THEN [calls |-> <<paged>>,
              err |-> <<"invalid literal for int() with base 10: '", args[2], "'">>]
        ELSE LET page == IF Len(args) > 1 THEN int(args[2]) ELSE 0
             IN  IF page < 0 \/ page >= Len(pages)
                 THEN [calls |-> <<paged>>, err |-> <<"invalid page number">>]
                 ELSE [calls |-> << paged,
                                    <<"reply", <<"Showing page ", format(page + 1),
                                                 " of ", format(Len(pages))>> >>,
                                    <<"reply", pages[page + 1]>> >>,
                       err |-> NoErr]

\* search.py 21-28, on the filtered rows: the calls made and the error raised
SearchPage(rows, args) ==
    LET pages == into_pages(Columns, rows)
        paged == <<"into_pages", Columns, rows>>
    IN  IF Len(args) > 1 /\ ~IsIntLiteral(args[2])
        THEN [calls |-> <<paged>>,
              err |-> <<"invalid literal for int() with base 10: '", args[2], "'">>]
        ELSE LET page == IF Len(args) > 1 THEN int(args[2]) - 1 ELSE 0
             IN  IF page < 0 \/ page >= Len(pages)
                 THEN [calls |-> <<paged>>, err |-> <<"invalid page number">>]
                 ELSE [calls |-> << paged,
                                    <<"reply", <<"Showing page ", format(page + 1),
                                                 " of ", format(Len(pages))>> >>,
                                    <<"reply", pages[page + 1]>> >>,
                       err |-> NoErr]

\* A fault of the error order: no check that the filter left any row
SearchOutcomeNoEmptyCheck(fetched, args) ==
    IF Len(args) < 1
    THEN [calls |-> <<>>, err |-> <<"a keyword is required">>]
    ELSE LET rows == FilterRows(fetched, args[1])
         IN  [calls |-> << <<"select_aliases">> >> \o SearchPage(rows, args).calls,
              err |-> SearchPage(rows, args).err]

\* search.py 6-28, with `fetched` the rows the SELECT returned
SearchOutcome(fetched, args) ==
    IF Len(args) < 1
    THEN [calls |-> <<>>, err |-> <<"a keyword is required">>]
    ELSE LET rows == FilterRows(fetched, args[1])
             query == <<"select_aliases">>
         IN  IF Len(rows) < 1
             THEN [calls |-> <<query>>,
                   err |-> <<"couldn't find any aliases like '", args[1], "'">>]
             ELSE [calls |-> <<query>> \o SearchPage(rows, args).calls,
                   err |-> SearchPage(rows, args).err]

\* The dispatcher calls search.execute(data, argv) with an argument list of
\* `inputs`; the handler reads the store once and writes nothing, so it runs
\* as one step. It never reads data.author.
Search(p, inputs) ==
    /\ pc[p] = "idle"
    /\ \E fetched \in OrderByCommandname(aliases) : \E args \in inputs :
          LET out == SearchOutcome(fetched, args)
          IN  /\ calls' = [calls EXCEPT ![p] = out.calls]
              /\ err' = [err EXCEPT ![p] = out.err]
              /\ pc' = [pc EXCEPT ![p] = IF out.err = NoErr THEN "done" ELSE "raised"]
              /\ argv' = [argv EXCEPT ![p] = args]
    /\ cmd' = [cmd EXCEPT ![p] = "search"]
    /\ UNCHANGED <<binds, committed, aliases, author, results, history, entry>>

\* execute() returns or raises to the dispatcher: the invocation's frame and
\* context object are gone
Return(p) ==
    /\ Returned(p)
    /\ pc' = [pc EXCEPT ![p] = "idle"]
    /\ cmd' = [cmd EXCEPT ![p] = "none"]
    /\ author' = [author EXCEPT ![p] = "u1"]
    /\ argv' = [argv EXCEPT ![p] = <<>>]
    /\ results' = [results EXCEPT ![p] = None]
    /\ calls' = [calls EXCEPT ![p] = <<>>]
    /\ err' = [err EXCEPT ![p] = NoErr]
    /\ entry' = [entry EXCEPT ![p] = <<>>]
    /\ UNCHANGED <<binds, committed, aliases, history>>

---------------------------------------------------------------------------
(* Dispatch *)

\* Sequential dispatch: one invocation runs to completion before the next starts
Next ==
    \/ \E u \in Users, args \in BindArgv : BindStart(1, u, args)
    \/ BindStep(1)
    \/ Search(1, SearchArgv)
    \/ Return(1)

Spec == Init /\ [][Next]_vars

\* Concurrent dispatch: the host framework runs invocations side by side on
\* the shared connection, each statement of a handler being one step
ConcUsers == {"u1"}

ConcArgv == { <<>>, <<a>>, <<help>>, <<a, help>> }

InitConc ==
    /\ Init
    /\ aliases = { <<hello, a, "u1", 1>>, <<help, a, "u1", 2>> }

NextConc ==
    \/ \E p \in Procs, u \in ConcUsers, args \in ConcArgv : BindStart(p, u, args)
    \/ \E p \in Procs : BindStep(p)
    \/ \E p \in Procs : Search(p, { <<hel>> })
    \/ \E p \in Procs : Return(p)

SpecConc == InitConc /\ [][NextConc]_vars

---------------------------------------------------------------------------
(* Properties *)

\* The positions of username's rows in a binds table
RowsOf(tbl, username) == { i \in 1..Len(tbl) : tbl[i][1] = username }

\* The rows of username in a binds table, in rowid order
RecordsOf(tbl, username) ==
    LET Mine(row) == row[1] = username
    IN  SelectSeq(tbl, Mine)

Last(s) == s[Len(s)]

Finished(p, command) == cmd[p] = command /\ pc[p] \in {"done", "raised"}

Quiescent == \A p \in Procs : pc[p] \in {"idle", "done", "raised"}

\* C1: under sequential dispatch the binds table (as the connection sees it
\* and as committed) never holds more than one record of the same username,
\* whatever users and argument lists the bind invocations are run with.
C1_OneRecordPerUser ==
    \A u \in Users :
        /\ Cardinality(RowsOf(binds, u)) <= 1
        /\ Cardinality(RowsOf(committed, u)) <= 1

\* Both users hold a record and u1's came through a rebind (the UPDATE branch).
C1_Witness ==
    /\ Len(history["u1"]) = 2
    /\ RowsOf(binds, "u1") # {}
    /\ RowsOf(binds, "u2") # {}
    /\ Quiescent

\* C2: under concurrent dispatch no interleaving of bind invocations leaves two
\* rows of the same user in the binds table (the existence check and the
\* write that follows it act as one atomic unit).
C2_NoDuplicateUnderConcurrency ==
    \A i, j \in 1..Len(binds) : binds[i][1] = binds[j][1] => i = j

\* C3: last successful bind wins. Once a user's rebind to T has completed and
\* no invocation is in flight, the store holds exactly one record of the user,
\* with value T; the row is committed when the 'Set bind to T.' reply is about
\* to be emitted and the commit precedes the reply; and a completed `bind`
\* without arguments plays T and replies 'Playing bind: T'.
C3_LastBindWins ==
    /\ \A u \in Users :
          (Quiescent /\ history[u] # <<>>) =>
              /\ RecordsOf(binds, u) = << <<u, Last(history[u])>> >>
              /\ RecordsOf(committed, u) = << <<u, Last(history[u])>> >>
    /\ \A p \in Procs :
          pc[p] = "reply" =>
              /\ RecordsOf(committed, author[p]) = << <<author[p], argv[p][1]>> >>
              /\ Last(calls[p]) = <<"commit">>
    /\ \A p \in Procs :
          (Finished(p, "bind") /\ pc[p] = "done" /\ Len(argv[p]) = 1) =>
              /\ Len(calls[p]) = 6
              /\ calls[p][4][1] \in {"insert", "update"}
              /\ calls[p][5] = <<"commit">>
              /\ calls[p][6] = <<"reply", <<"Set bind to ", argv[p][1], ".">> >>
    /\ \A p \in Procs :
          (Finished(p, "bind") /\ Len(argv[p]) = 0 /\ history[author[p]] # <<>>) =>
              /\ pc[p] = "done"
              /\ calls[p] = << <<"select">>,
                               <<"play", Last(history[author[p]])>>,
                               <<"reply", <<"Playing bind: ", Last(history[author[p]])>> >> >>

\* `bind T1`, `bind T2` with T1 # T2 and then `bind` have completed for a user.
C3_Witness ==
    \E p \in Procs :
        /\ Finished(p, "bind")
        /\ argv[p] = <<>>
        /\ Len(history[author[p]]) = 2
        /\ history[author[p]][1] # history[author[p]][2]
        /\ pc[p] = "done"


\* The collaborator calls of invocation p that touch the store or reply
Effects(p) ==
    { i \in 1..Len(calls[p]) : calls[p][i][1] \in {"insert", "update", "commit", "reply"} }

\* C4: a bind invocation that fails leaves the binds table as it found it and
\* has made no insert, update, commit or reply; `bind T` with T neither a sound
\* code nor an alias never gets past the validation and fails there.
C4_FailedBindWritesNothing ==
    /\ \A p \in Procs :
          (Finished(p, "bind") /\ pc[p] = "raised") =>
              /\ binds = entry[p][1]
              /\ committed = entry[p][2]
              /\ Effects(p) = {}
    /\ \A p \in Procs :
          (/\ cmd[p] = "bind"
           /\ Len(argv[p]) = 1
           /\ argv[p][1] \notin Sounds
           /\ \A r \in aliases : r[1] # argv[p][1]) =>
              /\ pc[p] \in {"select1", "args", "raised"}
              /\ pc[p] = "raised" =>
                    /\ err[p] = <<"unresolvable: ", argv[p][1]>>
                    /\ calls[p] = << <<"select">>, <<"resolve", argv[p][1]>> >>

\* `bind z` by a user who holds a record has failed.
C4_Witness ==
    \E p \in Procs :
        /\ Finished(p, "bind")
        /\ pc[p] = "raised"
        /\ argv[p] = <<z>>
        /\ RowsOf(binds, author[p]) # {}

\* C5: bind with two or more arguments fails with 'too many arguments',
\* whether or not the user holds a record and the tokens resolve; it calls
\* neither resolution nor playback, writes nothing and replies nothing.
C5_TooManyArguments ==
    \A p \in Procs :
        (cmd[p] = "bind" /\ Len(argv[p]) > 1) =>
            /\ pc[p] \in {"select1", "args", "raised"}
            /\ \A i \in 1..Len(calls[p]) : calls[p][i] = <<"select">>
            /\ binds = entry[p][1]
            /\ committed = entry[p][2]
            /\ pc[p] = "raised" =>
                  /\ err[p] = <<"too many arguments. Usage: bind [CODE|ALIAS]">>
                  /\ calls[p] = << <<"select">> >>

\* `bind a help`, both tokens resolvable, by a user who holds a record has failed.
C5_Witness ==
    \E p \in Procs :
        /\ Finished(p, "bind")
        /\ argv[p] = <<a, help>>
        /\ \E r \in aliases : r[1] = help
        /\ RowsOf(binds, author[p]) # {}

\* C6: bind without arguments is read-only. It fails with 'No bind set' exactly
\* when the user had no record; otherwise it plays the stored value and then
\* replies 'Playing bind: <value>'. It never resolves the value and never
\* changes the binds table.
C6_ReplayReadOnly ==
    \A p \in Procs :
        (cmd[p] = "bind" /\ Len(argv[p]) = 0) =>
            /\ binds = entry[p][1]
            /\ committed = entry[p][2]
            /\ pc[p] \in {"select1", "args", "done", "raised"}
            /\ pc[p] = "raised" =>
                  /\ RowsOf(entry[p][1], author[p]) = {}
                  /\ err[p] = <<"No bind set! Usage: bind [CODE|ALIAS]">>
                  /\ calls[p] = << <<"select">> >>
            /\ pc[p] = "done" =>
                  \E v \in BindTokens :
                      /\ RecordsOf(entry[p][1], author[p]) = << <<author[p], v>> >>
                      /\ calls[p] = << <<"select">>, <<"play", v>>,
                                       <<"reply", <<"Playing bind: ", v>> >> >>

\* `bind` by a user whose record names an alias has completed.
C6_Witness ==
    \E p \in Procs :
        /\ Finished(p, "bind")
        /\ argv[p] = <<>>
        /\ pc[p] = "done"
        /\ RecordsOf(binds, author[p]) = << <<author[p], help>> >>

\* keyword is a literal, case-sensitive prefix of name
HasPrefix(name, keyword) ==
    /\ Len(keyword) <= Len(name)
    /\ \A i \in 1..Len(keyword) : name[i] = keyword[i]

Matching(keyword) == { r \in aliases : HasPrefix(r[1], keyword) }

\* The rows invocation p handed to into_pages
Passed(p) == calls[p][2][3]

\* C7: the rows search passes to pagination are exactly the alias records whose
\* commandname has the keyword as a case-sensitive literal prefix, each once,
\* in ascending commandname order; aliases {hello, help, world} with keyword
\* 'hel' give [hello, help].
C7_PrefixFilterSorted ==
    \A p \in Procs :
        (Finished(p, "search") /\ Len(argv[p]) >= 1 /\ Matching(argv[p][1]) # {}) =>
            /\ Len(calls[p]) >= 2
            /\ calls[p][2][1] = "into_pages"
            /\ calls[p][2][2] = <<"Alias", "Action", "Author", "Created">>
            /\ { Passed(p)[i] : i \in 1..Len(Passed(p)) } = Matching(argv[p][1])
            /\ Len(Passed(p)) = Cardinality(Matching(argv[p][1]))
            /\ \A i, j \in 1..Len(Passed(p)) :
                  i < j => StrLeq(Passed(p)[i][1], Passed(p)[j][1])
            /\ (/\ argv[p][1] = hel
                /\ Cardinality(aliases) = 3
                /\ { r[1] : r \in aliases } = {hello, help, world}) =>
                  [ i \in 1..Len(Passed(p)) |-> Passed(p)[i][1] ] = <<hello, help>>

\* `search hel` over the aliases hello, help and world has completed.
C7_Witness ==
    \E p \in Procs :
        /\ Finished(p, "search")
        /\ argv[p] = <<hel>>
        /\ Cardinality(aliases) = 3
        /\ { r[1] : r \in aliases } = {hello, help, world}
        /\ pc[p] = "done"

\* The page numbers the page arguments stand for
PageNumber(arg) ==
    CASE arg = <<"0">> -> 0
      [] arg = <<"1">> -> 1
      [] arg = <<"2">> -> 2
      [] arg = <<"3">> -> 3
      [] arg = <<"0", "2">> -> 2
      [] arg = <<"-", "1">> -> 0 - 1

Decimal(n) == << <<"1">>, <<"2">>, <<"3">>, <<"4">>, <<"5">>, <<"6">>, <<"7">>, <<"8">>, <<"9">> >>[n]

PageCount(keyword) == (Cardinality(Matching(keyword)) + PageSize - 1) \div PageSize

Replies(p) ==
    LET IsReply(c) == c[1] = "reply"
    IN  SelectSeq(calls[p], IsReply)

\* C8: when the keyword matches an alias, search shows page 1 by default; with
\* an integer second argument n it fails with 'invalid page number' and no
\* reply if n is outside 1..pageCount, and otherwise emits two replies, the
\* header 'Showing page n of pageCount' and then the content of page n.
C8_PageSelection ==
    \A p \in Procs :
        (/\ Finished(p, "search")
         /\ Len(argv[p]) >= 1
         /\ Matching(argv[p][1]) # {}
         /\ Len(argv[p]) > 1 => argv[p][2] # <<"x">>) =>
            LET n == IF Len(argv[p]) > 1 THEN PageNumber(argv[p][2]) ELSE 1
                count == PageCount(argv[p][1])
            IN  IF n < 1 \/ n > count
                THEN /\ pc[p] = "raised"
                     /\ err[p] = <<"invalid page number">>
                     /\ Replies(p) = <<>>
                ELSE /\ pc[p] = "done"
                     /\ Replies(p) =
                           << <<"reply", <<"Showing page ", Decimal(n), " of ", Decimal(count)>> >>,
                              <<"reply", into_pages(calls[p][2][2], Passed(p))[n]>> >>
                     /\ Len(into_pages(calls[p][2][2], Passed(p))) = count

\* `search K 02` has shown the second of two pages.
C8_Witness ==
    \E p \in Procs :
        /\ Finished(p, "search")
        /\ Len(argv[p]) = 2
        /\ argv[p][2] = <<"0", "2">>
        /\ PageCount(argv[p][1]) = 2
        /\ pc[p] = "done"

\* C9: search without arguments fails with 'a keyword is required' before the
\* store is touched; with a keyword that is a prefix of no commandname it fails
\* with "couldn't find any aliases like '<keyword>'" whatever the page
\* argument, without paginating; neither replies.
C9_SearchErrorOrder ==
    \A p \in Procs :
        Finished(p, "search") =>
            /\ Len(argv[p]) = 0 =>
                  /\ pc[p] = "raised"
                  /\ err[p] = <<"a keyword is required">>
                  /\ calls[p] = <<>>
            /\ (Len(argv[p]) >= 1 /\ Matching(argv[p][1]) = {}) =>
                  /\ pc[p] = "raised"
                  /\ err[p] = <<"couldn't find any aliases like '", argv[p][1], "'">>
                  /\ calls[p] = << <<"select_aliases">> >>

\* `search z 0`, a keyword matching nothing with a page out of range, has
\* failed over a table that is not empty.
C9_Witness ==
    \E p \in Procs :
        /\ Finished(p, "search")
        /\ argv[p] = <<z, <<"0">> >>
        /\ aliases # {}

\* C10: a step of a bind invocation of user U leaves the records of every
\* other user (in the connection's view and as committed) and the aliases
\* table as they were; a step of a search invocation leaves both tables as
\* they were.
C10_Frame ==
    [][ \A p \in Procs :
          pc'[p] # pc[p] =>
              /\ aliases' = aliases
              /\ cmd'[p] # "bind" => (binds' = binds /\ committed' = committed)
              /\ \A u \in Users :
                    u # author'[p] =>
                        /\ RecordsOf(binds', u) = RecordsOf(binds, u)
                        /\ RecordsOf(committed', u) = RecordsOf(committed, u) ]_vars

\* A rebind of u1 has completed while u2 holds a record.
C10_Witness ==
    \E p \in Procs :
        /\ Finished(p, "bind")
        /\ author[p] = "u1"
        /\ Len(calls[p]) = 6
        /\ calls[p][4][1] = "update"
        /\ RowsOf(binds, "u2") # {}

====
